---- MODULE Spec2Model ----
(***************************************************************************)
(* State-machine model of scanpipe/pipelines/match_to_purldb.py: the       *)
(* MatchToPurlDB pipeline (PurlDB matching steps, pick_best_packages, the  *)
(* orphan cleanup), the match_purldb_resources helper, and the archive     *)
(* match refiner of the design document.                                   *)
(*                                                                         *)
(* The project is a set of codebase resources and a set of discovered      *)
(* packages joined by a many-to-many relation.  The steps that come before *)
(* the PurlDB matching (get_inputs, extraction, resource collection) are   *)
(* external collaborators: Init is the project right after them.           *)
(***************************************************************************)
EXTENDS Integers, Sequences, FiniteSets, TLC

VARIABLES
    codebaseresources,   \* project.codebaseresources: the resource records
    status,              \* CodebaseResource.status, by resource
    discoveredpackages,  \* project.discoveredpackages: the Package records
    codebase_resources,  \* DiscoveredPackage.codebase_resources, by package
    pc,                  \* the pipeline step to run next
    purldb_available,    \* what purldb.is_available() returned in the last step
    chunk_size,          \* chunk_size of the last match_purldb_resources call
    batches,             \* the batches handed to matcher_func by the last step
    main_package,        \* pick_best_packages: main_package of each visited group
    refined_count,       \* the count returned by the archive match refiner
    pre                  \* the project as each step run so far found it, by step

vars == <<codebaseresources, status, discoveredpackages, codebase_resources, pc,
          purldb_available, chunk_size, batches, main_package, refined_count, pre>>

-----------------------------------------------------------------------------
(* Bounds of the model. *)

\* most files of the project used to check the batching
MaxCandidates == 5
\* largest chunk_size tried by the batching check
MaxChunk == 3

-----------------------------------------------------------------------------
(* Values *)

\* Python's None, where a Package is expected
None == [pk |-> 0, namespace |-> "", name |-> "", version |-> ""]
NoStatus == ""
MATCHED_TO_PURLDB_PACKAGE == "matched-to-purldb-package"
MATCHED_TO_PURLDB_RESOURCE == "matched-to-purldb-resource"
REFINED == "matched-to-purldb-resource-refined"
SCANNED == "scanned"

FROM == "from"
TO == "to"

DefaultChunkSize == 1000

MATCH_PURLDB_PACKAGE == "match_purldb_package"
MATCH_PURLDB_RESOURCE == "match_purldb_resource"

Package(pk, namespace, name, version) ==
    [pk |-> pk, namespace |-> namespace, name |-> name, version |-> version]

P1 == Package(1, "org.foo", "bar", "1.0")
P2 == Package(2, "org.foo", "bar", "2.0")
P3 == Package(3, "org.foo", "bar", "3.0")
P4 == Package(4, "org.baz", "qux", "1.0")

\* every Package the matcher may know of, or the project may already hold
Packages == {P1, P2, P3, P4}

Resource(pk, path, is_file, sha1, is_archive) ==
    [pk |-> pk, path |-> path, is_file |-> is_file, sha1 |-> sha1,
     is_archive |-> is_archive]

\* the codebase of the pipeline runs: an archive and its extraction directory,
\* a file without fingerprint, and a file of the from/ side
MainCodebase ==
    { Resource(1, <<FROM, "x.java">>, TRUE, "h1", FALSE),
      Resource(2, <<TO, "a.jar">>, TRUE, "h2", TRUE),
      Resource(3, <<TO, "a.jar-extract">>, FALSE, "", FALSE),
      Resource(4, <<TO, "a.jar-extract", "x.class">>, TRUE, "h4", FALSE),
      Resource(5, <<TO, "a.jar-extract", "y.class">>, TRUE, "h5", FALSE),
      Resource(6, <<TO, "notes.txt">>, TRUE, "", FALSE) }

-----------------------------------------------------------------------------
(* Query helpers *)

\* a queryset iterated in its default order
RECURSIVE OrderByPk(_)
OrderByPk(S) ==
    IF S = {} THEN <<>>
    ELSE LET m == CHOOSE x \in S : \A y \in S : x.pk <= y.pk
         IN  <<m>> \o OrderByPk(S \ {m})

Range(s) == {s[i] : i \in 1..Len(s)}

\* the packages a resource is attributed to
PackagesOf(cr, pkgs, r) == {p \in pkgs : r \in cr[p]}

\* the project as it is, and the record of how each step found it
Snapshot ==
    [status |-> status, discoveredpackages |-> discoveredpackages,
     codebase_resources |-> codebase_resources]

Started(step) ==
    pre' = [s \in DOMAIN pre \cup {step} |-> IF s = step THEN Snapshot ELSE pre[s]]

NoSteps == [s \in {} |-> Snapshot]

-----------------------------------------------------------------------------
(* match_purldb_resources *)

\* .files()
Files(S) == {r \in S : r.is_file}

\* .to_codebase()
ToCodebase(S) == {r \in S : r.path[1] = TO}

\* the chain without its .no_status() filter
NoStatusOf_left_out(S, st) == S

\* .no_status()
NoStatusOf(S, st) == {r \in S : st[r] = NoStatus}

\* .has_value("sha1")
HasSha1(S) == {r \in S : r.sha1 # ""}

\* .filter(is_archive=is_archive)
FilterArchive(S, is_archive) == {r \in S : r.is_archive = is_archive}

\* the to_resources queryset
ToResources(S, st, is_archive) ==
    FilterArchive(HasSha1(NoStatusOf(ToCodebase(Files(S)), st)), is_archive)

\* the ordered batches of at most c resources a sequence is cut into
RECURSIVE Batches(_, _)
Batches(seq, c) ==
    IF seq = <<>> THEN <<>>
    ELSE IF Len(seq) <= c THEN <<seq>>
    ELSE <<SubSeq(seq, 1, c)>> \o Batches(SubSeq(seq, c + 1, Len(seq)), c)

\* the resources of a sequence of batches
Batched(bs) == UNION {Range(bs[i]) : i \in 1..Len(bs)}

\* the status a matcher gives to the resources it matches
MatchedStatus(matcher_func) ==
    IF matcher_func = MATCH_PURLDB_PACKAGE THEN MATCHED_TO_PURLDB_PACKAGE
    ELSE MATCHED_TO_PURLDB_RESOURCE

\* d2d._match_purldb_resources: each batch goes to matcher_func; res is what
\* PurlDB answers, the packages of each SHA1.  A matched resource is attributed
\* to the packages returned for it and takes the matcher's status.
MatchBatchesToPurldb(bs, matcher_func, res) ==
    LET sent == Batched(bs)
        hit == {r \in sent : res[r.sha1] # {}}
    IN  /\ status' = [r \in codebaseresources |->
                         IF r \in hit THEN MatchedStatus(matcher_func) ELSE status[r]]
        /\ codebase_resources' = [p \in Packages |->
                         codebase_resources[p] \cup {r \in hit : p \in res[r.sha1]}]
        /\ discoveredpackages' =
               discoveredpackages \cup UNION {res[r.sha1] : r \in hit}

\* match_purldb_resources that does not pass its chunk_size on
match_purldb_resources_default_chunk(is_archive, matcher_func, c, known) ==
    LET to_resources == ToResources(codebaseresources, status, is_archive)
        bs == Batches(OrderByPk(to_resources), DefaultChunkSize)
    IN  /\ chunk_size' = c
        /\ batches' = bs
        /\ \E res \in [{r.sha1 : r \in to_resources} -> SUBSET known] :
               MatchBatchesToPurldb(bs, matcher_func, res)

\* match_purldb_resources(project, is_archive, matcher_func, chunk_size);
\* known is the set of packages PurlDB may answer with
match_purldb_resources(is_archive, matcher_func, c, known) ==
    LET to_resources == ToResources(codebaseresources, status, is_archive)
        bs == Batches(OrderByPk(to_resources), c)
    IN  /\ chunk_size' = c
        /\ batches' = bs
        /\ \E res \in [{r.sha1 : r \in to_resources} -> SUBSET known] :
               MatchBatchesToPurldb(bs, matcher_func, res)

-----------------------------------------------------------------------------
(* pick_best_packages *)

GroupKeys(pkgs) == {<<p.namespace, p.name>> : p \in pkgs}

\* project.discoveredpackages.filter(namespace=namespace, name=name)
RelatedPackages(pkgs, g) == {p \in pkgs : p.namespace = g[1] /\ p.name = g[2]}

\* set(r.path for r in package.resources)
ResourcePaths(cr, p) == {r.path : r \in cr[p]}

\* the election loop: main_package and main_package_resources_count are the
\* loop's running values, seq the packages still to visit
RECURSIVE ElectMain(_, _, _, _)
ElectMain(cr, seq, main, count) ==
    IF seq = <<>> THEN main
    ELSE LET related_package == Head(seq)
             related_resource_paths_count == Cardinality(cr[related_package])
         IN  IF related_resource_paths_count > count
             THEN ElectMain(cr, Tail(seq), related_package,
                            related_resource_paths_count)
             ELSE ElectMain(cr, Tail(seq), main, count)

MainPackage(cr, pkgs, g) ==
    ElectMain(cr, OrderByPk(RelatedPackages(pkgs, g)), None, 0)

\* whether the loop over the other packages clears related_package
IsReduced(cr, related_package, main) ==
    ResourcePaths(cr, related_package) \subseteq ResourcePaths(cr, main)

\* the loop over related_packages, the main package not excluded
ReduceGroup_main_included(cr, pkgs, g, main) ==
    [p \in Packages |->
        IF p \in RelatedPackages(pkgs, g) /\ IsReduced(cr, p, main)
        THEN {} ELSE cr[p]]

\* the loop over related_packages.exclude(pk=main_package.pk)
ReduceGroup(cr, pkgs, g, main) ==
    [p \in Packages |->
        IF /\ p \in RelatedPackages(pkgs, g)
           /\ p.pk # main.pk
           /\ IsReduced(cr, p, main)
        THEN {} ELSE cr[p]]

\* the loop over the groups, taken in the order the set yields them; a group
\* that elects None raises KeyError at resource_paths_by_package[main_package]
RECURSIVE PickBest(_, _, _, _)
PickBest(order, pkgs, cr, mains) ==
    IF order = <<>> THEN [cr |-> cr, mains |-> mains, raised |-> FALSE]
    ELSE LET g == Head(order)
             main == MainPackage(cr, pkgs, g)
             mains2 == [h \in DOMAIN mains \cup {g} |->
                           IF h = g THEN main ELSE mains[h]]
         IN  IF main = None
             THEN [cr |-> cr, mains |-> mains2, raised |-> TRUE]
             ELSE PickBest(Tail(order), pkgs, ReduceGroup(cr, pkgs, g, main), mains2)

\* the orders a set may be iterated in
Orders(S) == {s \in [1..Cardinality(S) -> S] : Range(s) = S}

NoMains == [g \in {} |-> None]

-----------------------------------------------------------------------------
(* The pipeline: MatchToPurlDB.steps *)

\* The project may already hold packages, with or without resources, and a
\* resource that an earlier pipeline gave a status and packages.
Init ==
    /\ codebaseresources = MainCodebase
    /\ discoveredpackages \in SUBSET Packages
    /\ \E prior \in SUBSET {r \in MainCodebase : r.pk = 5} :
          /\ status = [r \in MainCodebase |->
                           IF r \in prior THEN SCANNED ELSE NoStatus]
          /\ \E owners \in SUBSET discoveredpackages :
                 codebase_resources =
                     [p \in Packages |-> IF p \in owners THEN prior ELSE {}]
    /\ pc = "match_archives_to_purldb_packages"
    /\ purldb_available = FALSE
    /\ chunk_size = DefaultChunkSize
    /\ batches = <<>>
    /\ main_package = NoMains
    /\ refined_count = 0
    /\ pre = NoSteps

\* a matching step that goes on to match when PurlDB is not available
MatchStep_unchecked(is_archive, matcher_func) ==
    /\ Started(pc)
    /\ \E available \in BOOLEAN : purldb_available' = available
    /\ match_purldb_resources(is_archive, matcher_func, DefaultChunkSize, Packages)
    /\ UNCHANGED <<codebaseresources, main_package, refined_count>>

\* one matching step: the availability check, then match_purldb_resources
MatchStep(is_archive, matcher_func) ==
    /\ Started(pc)
    /\ \E available \in BOOLEAN :
          /\ purldb_available' = available
          /\ IF available
             THEN match_purldb_resources(is_archive, matcher_func,
                                         DefaultChunkSize, Packages)
             ELSE /\ batches' = <<>>
                  /\ UNCHANGED <<status, codebase_resources, discoveredpackages,
                                 chunk_size>>
    /\ UNCHANGED <<codebaseresources, main_package, refined_count>>

match_archives_to_purldb_packages ==
    /\ pc = "match_archives_to_purldb_packages"
    /\ MatchStep(TRUE, MATCH_PURLDB_PACKAGE)
    /\ pc' = "match_resources_to_purldb"

match_resources_to_purldb ==
    /\ pc = "match_resources_to_purldb"
    /\ MatchStep(FALSE, MATCH_PURLDB_RESOURCE)
    /\ pc' = "pick_best_packages"

pick_best_packages ==
    /\ pc = "pick_best_packages"
    /\ Started(pc)
    /\ \E order \in Orders(GroupKeys(discoveredpackages)) :
          LET run == PickBest(order, discoveredpackages, codebase_resources, NoMains)
          IN  /\ codebase_resources' = run.cr
              /\ main_package' = run.mains
              /\ pc' = IF run.raised THEN "failed"
                       ELSE "remove_packages_without_resources"
    /\ UNCHANGED <<codebaseresources, status, discoveredpackages, purldb_available,
                   chunk_size, batches, refined_count>>

\* the filter with codebase_resources__isnull=False
WithResources_isnull_false(pkgs, cr) == {p \in pkgs : cr[p] = {}}

\* the packages the final step keeps
WithResources(pkgs, cr) == {p \in pkgs : cr[p] # {}}

remove_packages_without_resources ==
    /\ pc = "remove_packages_without_resources"
    /\ Started(pc)
    /\ discoveredpackages' = WithResources(discoveredpackages, codebase_resources)
    /\ pc' = "done"
    /\ UNCHANGED <<codebaseresources, status, codebase_resources, purldb_available,
                   chunk_size, batches, main_package, refined_count>>

Next ==
    \/ match_archives_to_purldb_packages
    \/ match_resources_to_purldb
    \/ pick_best_packages
    \/ remove_packages_without_resources

Spec == Init /\ [][Next]_vars

-----------------------------------------------------------------------------
(* The batching of match_purldb_resources, on projects of up to             *)
(* MaxCandidates files and chunk sizes up to MaxChunk.                      *)

BatchFile(i) == Resource(i, <<TO, "lib", ToString(i)>>, TRUE, ToString(i), FALSE)

InitBatch ==
    /\ \E n \in 0..MaxCandidates :
          /\ codebaseresources = {BatchFile(i) : i \in 1..n}
          /\ status = [r \in {BatchFile(i) : i \in 1..n} |-> NoStatus]
    /\ discoveredpackages = {}
    /\ codebase_resources = [p \in Packages |-> {}]
    /\ pc = "match_purldb_resources"
    /\ purldb_available = TRUE
    /\ chunk_size = DefaultChunkSize
    /\ batches = <<>>
    /\ main_package = NoMains
    /\ refined_count = 0
    /\ pre = NoSteps

MatchWithChunkSize ==
    /\ pc = "match_purldb_resources"
    /\ Started(pc)
    /\ \E c \in 1..MaxChunk :
           match_purldb_resources(FALSE, MATCH_PURLDB_RESOURCE, c, {P1})
    /\ pc' = "matched"
    /\ UNCHANGED <<codebaseresources, purldb_available, main_package, refined_count>>

NextBatch == MatchWithChunkSize

SpecBatch == InitBatch /\ [][NextBatch]_vars

-----------------------------------------------------------------------------
(* The archive match refiner *)

ExtractNames == {"a.jar-extract", "b.jar-extract", "c.jar-extract"}

\* a directory whose path ends with the extraction marker
IsExtractDir(r) == ~r.is_file /\ r.path[Len(r.path)] \in ExtractNames

\* path lies under the directory dirpath
IsUnder(path, dirpath) ==
    Len(path) > Len(dirpath) /\ SubSeq(path, 1, Len(dirpath)) = dirpath

\* step 1: another extraction directory lies under dir
HasNestedArchive(S, dir) ==
    \E d \in S : d # dir /\ IsExtractDir(d) /\ IsUnder(d.path, dir.path)

\* step 2: the files under dir that carry the "matched to resource" status
MatchedFilesUnder(S, st, dir) ==
    {r \in S : r.is_file /\ IsUnder(r.path, dir.path)
               /\ st[r] = MATCHED_TO_PURLDB_RESOURCE}

\* step 4: the packages common to the entries, starting from the first entry's
RECURSIVE CommonPackages(_, _, _, _)
CommonPackages(cr, pkgs, seq, common) ==
    IF seq = <<>> THEN common
    ELSE CommonPackages(cr, pkgs, Tail(seq),
                        common \cap PackagesOf(cr, pkgs, Head(seq)))

CommonOf(cr, pkgs, files) ==
    LET seq == OrderByPk(files)
    IN  CommonPackages(cr, pkgs, Tail(seq), PackagesOf(cr, pkgs, Head(seq)))

\* the refinement without step 6's clearing of the attributions
RefineDirectory_not_cleared(S, pkgs, p, dir) ==
    LET files == MatchedFilesUnder(S, p.status, dir)
    IN  IF HasNestedArchive(S, dir) \/ files = {} THEN p
        ELSE LET common == CommonOf(p.cr, pkgs, files)
             IN  IF common = {} THEN p
                 ELSE [status |-> [r \in S |-> IF r \in files THEN REFINED
                                               ELSE p.status[r]],
                       cr |-> [q \in Packages |->
                                  IF q \in common THEN p.cr[q] \cup files
                                  ELSE p.cr[q]],
                       count |-> p.count + Cardinality(files)]

\* steps 1 to 7 for one directory, on the project p = [status, cr, count]
RefineDirectory(S, pkgs, p, dir) ==
    LET files == MatchedFilesUnder(S, p.status, dir)
    IN  IF HasNestedArchive(S, dir) \/ files = {} THEN p
        ELSE LET common == CommonOf(p.cr, pkgs, files)
             IN  IF common = {} THEN p
                 ELSE [status |-> [r \in S |-> IF r \in files THEN REFINED
                                               ELSE p.status[r]],
                       cr |-> [q \in Packages |->
                                  IF q \in common THEN p.cr[q] \cup files
                                  ELSE p.cr[q] \ files],
                       count |-> p.count + Cardinality(files)]

RECURSIVE RefineAll(_, _, _, _)
RefineAll(S, pkgs, p, dirs) ==
    IF dirs = <<>> THEN p
    ELSE RefineAll(S, pkgs, RefineDirectory(S, pkgs, p, Head(dirs)), Tail(dirs))

\* a codebase with a plain extraction directory and one that holds a nested one
RefineCodebase ==
    { Resource(1, <<TO, "a.jar-extract">>, FALSE, "", FALSE),
      Resource(2, <<TO, "a.jar-extract", "a.class">>, TRUE, "h2", FALSE),
      Resource(3, <<TO, "a.jar-extract", "b.class">>, TRUE, "h3", FALSE),
      Resource(4, <<TO, "b.jar-extract">>, FALSE, "", FALSE),
      Resource(5, <<TO, "b.jar-extract", "c.jar-extract">>, FALSE, "", FALSE),
      Resource(6, <<TO, "b.jar-extract", "c.jar-extract", "z.class">>, TRUE, "h6", FALSE),
      Resource(7, <<TO, "b.jar-extract", "w.class">>, TRUE, "h7", FALSE) }

\* the packages the resources of RefineCodebase were matched to
RefinePackages == {P1, P2}

\* the project after the resource matching: a file is matched, with at least
\* one package, or has no status and no package
InitRefine ==
    /\ codebaseresources = RefineCodebase
    /\ discoveredpackages = RefinePackages
    /\ \E m \in [Files(RefineCodebase) -> SUBSET RefinePackages] :
          /\ status = [r \in RefineCodebase |->
                          IF r.is_file /\ m[r] # {} THEN MATCHED_TO_PURLDB_RESOURCE
                          ELSE NoStatus]
          /\ codebase_resources =
                 [p \in Packages |-> {r \in Files(RefineCodebase) : p \in m[r]}]
    /\ pc = "refine"
    /\ purldb_available = TRUE
    /\ chunk_size = DefaultChunkSize
    /\ batches = <<>>
    /\ main_package = NoMains
    /\ refined_count = 0
    /\ pre = NoSteps

Refine ==
    /\ pc = "refine"
    /\ Started(pc)
    /\ LET dirs == OrderByPk({r \in codebaseresources : IsExtractDir(r)})
           end == RefineAll(codebaseresources, discoveredpackages,
                            [status |-> status, cr |-> codebase_resources,
                             count |-> 0], dirs)
       IN  /\ status' = end.status
           /\ codebase_resources' = end.cr
           /\ refined_count' = end.count
    /\ pc' = "refined"
    /\ UNCHANGED <<codebaseresources, discoveredpackages, purldb_available,
                   chunk_size, batches, main_package>>

NextRefine == Refine

SpecRefine == InitRefine /\ [][NextRefine]_vars

-----------------------------------------------------------------------------
(* Properties *)

PICK_BEST == "pick_best_packages"
REMOVE_ORPHANS == "remove_packages_without_resources"

\* pick_best_packages has ended, by returning or by raising
PickEnded == pc \in {REMOVE_ORPHANS, "failed"}

\* the main package as the design document elects it: most resource paths,
\* the first in iteration order among the packages that have the most
ElectedMain(cr, pkgs, g) ==
    LET rel == RelatedPackages(pkgs, g)
        most == {p \in rel : \A q \in rel : Cardinality(cr[q]) <= Cardinality(cr[p])}
    IN  CHOOSE p \in most : \A q \in most : p.pk <= q.pk

\* the resource paths attributed to at least one package of the group
GroupPaths(cr, pkgs, g) ==
    UNION {ResourcePaths(cr, p) : p \in RelatedPackages(pkgs, g)}

\* the reduction rule for package p2 against main, from before to after
ReducedAgainst(before, after, p2, main) ==
    IF ResourcePaths(before, p2) \subseteq ResourcePaths(before, main)
    THEN after[p2] = {}
    ELSE after[p2] = before[p2]

\* C1: once pick_best_packages has ended, in every (namespace, name) group
\* every package other than the main package has no attribution left if its
\* resource paths were a subset of the main package's, and its attributions
\* of before the call otherwise.
C1_SubsetInvariant ==
    PickEnded =>
        LET b == pre[PICK_BEST]
        IN  \A g \in GroupKeys(b.discoveredpackages) :
                LET main == ElectedMain(b.codebase_resources, b.discoveredpackages, g)
                IN  \A p2 \in RelatedPackages(b.discoveredpackages, g) \ {main} :
                        ReducedAgainst(b.codebase_resources, codebase_resources,
                                       p2, main)

\* The same rule, for the groups the call went through: it holds of every
\* group whose main package pick_best_packages elected, so of every group
\* when the call returns.
SubsetInvariantOfVisited ==
    PickEnded =>
        LET b == pre[PICK_BEST]
        IN  /\ pc = REMOVE_ORPHANS => DOMAIN main_package = GroupKeys(b.discoveredpackages)
            /\ \A g \in DOMAIN main_package :
                  main_package[g] # None =>
                      \A p2 \in RelatedPackages(b.discoveredpackages, g)
                                   \ {main_package[g]} :
                          ReducedAgainst(b.codebase_resources, codebase_resources,
                                         p2, main_package[g])

\* C2: when the steps have run to their end, every package left has at least
\* one resource, the cleanup deleted exactly the packages without resources,
\* and every package pick_best_packages cleared is among the deleted.
C2_NoOrphan ==
    pc = "done" =>
        LET b == pre[REMOVE_ORPHANS]
        IN  /\ \A p \in discoveredpackages : codebase_resources[p] # {}
            /\ discoveredpackages \subseteq b.discoveredpackages
            /\ \A p \in b.discoveredpackages :
                  p \in discoveredpackages <=> b.codebase_resources[p] # {}
            /\ codebase_resources = b.codebase_resources
            /\ \A p \in pre[PICK_BEST].discoveredpackages :
                  /\ pre[PICK_BEST].codebase_resources[p] # {}
                  /\ b.codebase_resources[p] = {}
                  => p \notin discoveredpackages

\* a run that ended with a package cleared by pick_best_packages and deleted
\* by the cleanup, and another package kept
C2_Witness ==
    /\ pc = "done"
    /\ discoveredpackages # {}
    /\ \E p \in pre[PICK_BEST].discoveredpackages :
          /\ pre[PICK_BEST].codebase_resources[p] # {}
          /\ p \notin discoveredpackages

\* C3: the main package pick_best_packages elects for a group is a package of
\* the group, none of the group has more resource paths, and it comes first
\* among those that have as many.
C3_MainPackageElection ==
    \A g \in DOMAIN main_package :
        LET b == pre[PICK_BEST]
            rel == RelatedPackages(b.discoveredpackages, g)
            main == main_package[g]
        IN  /\ main \in rel
            /\ \A q \in rel :
                  /\ Cardinality(b.codebase_resources[q])
                         <= Cardinality(b.codebase_resources[main])
                  /\ Cardinality(b.codebase_resources[q])
                         = Cardinality(b.codebase_resources[main])
                     => main.pk <= q.pk

\* What the election does: it elects the design document's main package in a
\* group where some package has a resource, and None in a group where none has.
ElectionOfVisited ==
    \A g \in DOMAIN main_package :
        LET b == pre[PICK_BEST]
            rel == RelatedPackages(b.discoveredpackages, g)
        IN  IF \A q \in rel : b.codebase_resources[q] = {}
            THEN main_package[g] = None
            ELSE main_package[g]
                     = ElectedMain(b.codebase_resources, b.discoveredpackages, g)

\* C4: pick_best_packages never raises, whatever the project holds.
C4_NeverRaises == pc # "failed"

\* the step that ran before the pipeline came to step
StepBefore(step) ==
    IF step = "match_resources_to_purldb" THEN "match_archives_to_purldb_packages"
    ELSE "match_resources_to_purldb"

\* C5: a matching step that finds PurlDB unavailable hands nothing to the
\* matcher, leaves every status, attribution and package as it found them, and
\* the pipeline goes on to the next step: only pick_best_packages ends a run
\* early.
C5_ServiceUnavailable ==
    /\ pc \in {"match_resources_to_purldb", PICK_BEST} /\ ~purldb_available =>
          LET b == pre[StepBefore(pc)]
          IN  /\ batches = <<>>
              /\ status = b.status
              /\ codebase_resources = b.codebase_resources
              /\ discoveredpackages = b.discoveredpackages
    /\ pc = "failed" => PICK_BEST \in DOMAIN pre
    /\ PICK_BEST \in DOMAIN pre =>
          {"match_archives_to_purldb_packages", "match_resources_to_purldb"}
              \subseteq DOMAIN pre

\* PurlDB answered the archive step, which matched a resource, and was
\* unavailable at the resource step
C5_Witness ==
    /\ pc = PICK_BEST
    /\ ~purldb_available
    /\ pre["match_resources_to_purldb"].status
           # pre["match_archives_to_purldb_packages"].status

\* the entries the design document selects, from the project as the step found it
Selected(b, is_archive) ==
    {r \in codebaseresources :
        /\ r.is_file
        /\ r.path[1] = TO
        /\ b.status[r] = NoStatus
        /\ r.sha1 # ""
        /\ r.is_archive = is_archive}

\* C6: a matching step that finds PurlDB available hands to the matcher
\* exactly the files of the to/ side that have no status, have a SHA1 and have
\* the is_archive value asked for; every other entry keeps its status and its
\* packages.
C6_CandidateSelection ==
    pc \in {"match_resources_to_purldb", PICK_BEST} /\ purldb_available =>
        LET b == pre[StepBefore(pc)]
            selected == Selected(b, pc = "match_resources_to_purldb")
        IN  /\ Batched(batches) = selected
            /\ \A r \in codebaseresources \ selected :
                  /\ status[r] = b.status[r]
                  /\ PackagesOf(codebase_resources, Packages, r)
                         = PackagesOf(b.codebase_resources, Packages, r)

\* the resource step matched a file while the archive matched by the earlier
\* step and the file that came with a status kept theirs
C6_Witness ==
    /\ pc = PICK_BEST
    /\ purldb_available
    /\ batches # <<>>
    /\ \E r \in codebaseresources :
          /\ status[r] = MATCHED_TO_PURLDB_PACKAGE
          /\ PackagesOf(codebase_resources, Packages, r) # {}
    /\ \E r \in codebaseresources : status[r] = SCANNED
    /\ \E r \in codebaseresources : status[r] = MATCHED_TO_PURLDB_RESOURCE

RECURSIVE Flatten(_)
Flatten(bs) == IF bs = <<>> THEN <<>> ELSE Head(bs) \o Flatten(Tail(bs))

\* C7: n candidates and chunk_size c give ceil(n / c) batches, each of at most
\* c, all but the last of exactly c, which taken in order are the candidate
\* sequence.
C7_BatchSizeBound ==
    pc = "matched" =>
        LET candidates ==
                OrderByPk(Selected(pre["match_purldb_resources"], FALSE))
            n == Len(candidates)
            c == chunk_size
        IN  /\ Len(batches) = (n + c - 1) \div c
            /\ \A i \in 1..Len(batches) : Len(batches[i]) <= c
            /\ \A i \in 1..(Len(batches) - 1) : Len(batches[i]) = c
            /\ Flatten(batches) = candidates

\* five candidates in chunks of two: batches of 2, 2 and 1
C7_Witness ==
    /\ pc = "matched"
    /\ chunk_size + chunk_size + 1 = Cardinality(codebaseresources)
    /\ Len(batches) > chunk_size
    /\ Len(batches[Len(batches)]) < chunk_size

\* the matched files of a directory and their common packages, in the project b
MatchedIn(b, dir) ==
    {r \in codebaseresources :
        /\ r.is_file
        /\ IsUnder(r.path, dir.path)
        /\ b.status[r] = MATCHED_TO_PURLDB_RESOURCE}

ConsensusIn(b, dir) ==
    {p \in b.discoveredpackages :
        \A r \in MatchedIn(b, dir) : r \in b.codebase_resources[p]}

\* the extraction directories without a nested extraction directory
LeafExtractDirs ==
    {d \in codebaseresources :
        /\ IsExtractDir(d)
        /\ ~\E e \in codebaseresources :
               e # d /\ IsExtractDir(e) /\ IsUnder(e.path, d.path)}

HasConsensus(b, dir) == MatchedIn(b, dir) # {} /\ ConsensusIn(b, dir) # {}

RECURSIVE SumOver(_, _)
SumOver(b, dirs) ==
    IF dirs = {} THEN 0
    ELSE LET d == CHOOSE x \in dirs : TRUE
         IN  (IF HasConsensus(b, d) THEN Cardinality(MatchedIn(b, d)) ELSE 0)
             + SumOver(b, dirs \ {d})

\* C8: after the refinement, the matched files of an extraction directory
\* without nested extraction directory whose packages have a non-empty
\* intersection have exactly the packages of the intersection and the refined
\* status; the files of one without matched files or without common package
\* are as before; the count returned is the number of files of the former.
C8_RefinerConsensus ==
    pc = "refined" =>
        LET b == pre["refine"]
        IN  /\ \A d \in LeafExtractDirs :
                  IF HasConsensus(b, d)
                  THEN \A r \in MatchedIn(b, d) :
                          /\ PackagesOf(codebase_resources, Packages, r)
                                 = ConsensusIn(b, d)
                          /\ status[r] = REFINED
                  ELSE \A r \in codebaseresources :
                          IsUnder(r.path, d.path) =>
                              /\ status[r] = b.status[r]
                              /\ PackagesOf(codebase_resources, Packages, r)
                                     = PackagesOf(b.codebase_resources, Packages, r)
            /\ refined_count = SumOver(b, LeafExtractDirs)

\* two files of a directory, one matched to two packages and one to one of
\* them, both refined to the common package
C8_Witness ==
    /\ pc = "refined"
    /\ refined_count >= Cardinality(RefinePackages)
    /\ \E d \in LeafExtractDirs : \E r1, r2 \in MatchedIn(pre["refine"], d) :
          /\ r1 # r2
          /\ PackagesOf(pre["refine"].codebase_resources, Packages, r1) = {P1, P2}
          /\ PackagesOf(pre["refine"].codebase_resources, Packages, r2) = {P1}
          /\ PackagesOf(codebase_resources, Packages, r1) = {P1}
          /\ status[r1] = REFINED /\ status[r2] = REFINED

\* C9: after pick_best_packages no group holds two packages of which one still
\* has resources that are all among the resources of the other.
C9_NoSubsetOfSibling ==
    pc = REMOVE_ORPHANS =>
        \A p, q \in discoveredpackages :
            /\ p # q
            /\ p.namespace = q.namespace /\ p.name = q.name
            /\ codebase_resources[p] # {}
            => ~(ResourcePaths(codebase_resources, p)
                    \subseteq ResourcePaths(codebase_resources, q))

\* C10: pick_best_packages deletes no package, leaves the main packages as
\* they were and each group's attributed resource paths the same; after the
\* cleanup every such path still has a package of its group.
C10_CoveragePreserved ==
    /\ PickEnded =>
          LET b == pre[PICK_BEST]
          IN  /\ discoveredpackages = b.discoveredpackages
              /\ \A g \in DOMAIN main_package :
                    main_package[g] # None =>
                        codebase_resources[main_package[g]]
                            = b.codebase_resources[main_package[g]]
              /\ \A g \in GroupKeys(b.discoveredpackages) :
                    GroupPaths(codebase_resources, discoveredpackages, g)
                        = GroupPaths(b.codebase_resources, b.discoveredpackages, g)
    /\ pc = "done" =>
          LET b == pre[PICK_BEST]
          IN  \A g \in GroupKeys(b.discoveredpackages) :
                  \A path \in GroupPaths(b.codebase_resources, b.discoveredpackages, g) :
                      \E p \in RelatedPackages(discoveredpackages, g) :
                          path \in ResourcePaths(codebase_resources, p)

\* a run in which a package that had resources lost them to the reduction and
\* its group still covers each of its paths at the end
C10_Witness ==
    /\ pc = "done"
    /\ \E p \in pre[PICK_BEST].discoveredpackages :
          /\ pre[PICK_BEST].codebase_resources[p] # {}
          /\ pre[REMOVE_ORPHANS].codebase_resources[p] = {}
          /\ \E q \in discoveredpackages :
                /\ q.namespace = p.namespace /\ q.name = p.name
                /\ pre[PICK_BEST].codebase_resources[p] \subseteq codebase_resources[q]

====
